---- MODULE Spec2Model ----
(***************************************************************************)
(* Model of optimization.py: get_storage_capacity and run_scenario.        *)
(*                                                                         *)
(* run_scenario is one sequential function; pc records its position:       *)
(*   "start"      before line 89                                           *)
(*   "loaded"     get_storage_capacity has returned (line 89)              *)
(*   "built"      the seven hourly series exist (lines 91-207)             *)
(*   "formulated" the pyomo model is built (lines 214-484)                 *)
(*   "solving"    inside optimizer.solve (line 493)                        *)
(*   "solved"     optimizer.solve has returned (line 493)                  *)
(*   "done"       run_scenario has returned df, input_data (line 610)      *)
(*   "failed"     an exception left run_scenario                           *)
(*                                                                         *)
(* Quantities are in TWh (storage) and TWh/h (flows), as in the code.      *)
(* The code computes in floating point; the model computes in integers,    *)
(* and draws the annual totals from multiples of Unit so that every        *)
(* division the code performs is exact.  Fractions (reductions, the        *)
(* Russian share) are given in tenths.  Dates are hours since start_date.  *)
(***************************************************************************)
EXTENDS Integers, Sequences, FiniteSets, TLC

VARIABLES
    pc,           \* position in run_scenario
    params,       \* the arguments of run_scenario
    xlsx,         \* rows of Input/Optimization/storage_data_5a.xlsx
    storage,      \* (storCap, soc_max_hour) as returned by get_storage_capacity
    series,       \* the seven hourly series, each indexed 0..number_periods-1
    constrs,      \* the constraint instances of pyM: records [rule, t]
    fixed,        \* indices i with pyM.Soc_slack[i] fixed to 0
    sol,          \* variable values held by pyM (solver's current point)
    stage,        \* solver position: next variable block to assign
    bound,        \* what the solver has established about the objective
    solver_info,  \* termination condition reported by optimizer.solve
    df            \* the result table: one row per hour

vars == <<pc, params, xlsx, storage, series, constrs, fixed, sol, stage,
          bound, solver_info, df>>

(***************************************************************************)
(* Bounds and program constants                                            *)
(***************************************************************************)

\* hours per year: 8760 in the code, scaled down
periods_per_year == 2

\* hours per gas day: 24 in the code, scaled down
HoursPerDay == 1

\* the solver grid for a storage slack: 0 or SlackLevel
SlackLevel == 1

storCap == 1100

TargetYear == 2022

lng_base_import == 876

SocBuffer == 10

\* number_periods = periods_per_year * 1.5; len(ts_vol) after the half year
\* is appended is periods_per_year + int(0.5 * periods_per_year)
number_periods == periods_per_year + (periods_per_year \div 2)

\* time_index positions
Hours == 0 .. (number_periods - 1)

NoValue == "None"

(***************************************************************************)
(* Input data: the normalized load shape (ts_normalized.csv, one year).    *)
(* ts_vol[h] = ts_vol_num(h) / VolDen, summing to 1 over the year.         *)
(***************************************************************************)
ts_vol_num(h) == IF h = 0 THEN 2 ELSE 1

VolDen == periods_per_year + 1

\* annual totals are multiples of Unit: exact tenths, tenths of tenths,
\* shares of the year and of the load shape
Unit == 100 * periods_per_year * VolDen

\* for scenarios without demand reduction: exact tenths and shares
SmallUnit == 10 * periods_per_year * VolDen

(***************************************************************************)
(* get_storage_capacity                                                    *)
(***************************************************************************)

\* bool_year: str(year) in str(x) for x in gasDayStartedOn
bool_year(row) == row.year = TargetYear

\* df_storage.loc[bool_year, :]
FilterYear(rows) == SelectSeq(rows, bool_year)

RECURSIVE SortByDay(_)
\* sort_values("gasDayStartedOn"): ascending by date (one year left, so by day)
SortByDay(rows) ==
    IF rows = <<>> THEN <<>>
    ELSE LET i == CHOOSE k \in 1..Len(rows) :
                      \A j \in 1..Len(rows) : rows[k].day <= rows[j].day
             rest == [j \in 1..(Len(rows) - 1) |->
                          IF j < i THEN rows[j] ELSE rows[j + 1]]
         IN  <<rows[i]>> \o SortByDay(rest)

\* soc_max_hour = soc_max_hour + 24 * [value] for each daily value
Upsample(days) ==
    [k \in 1..(Len(days) * HoursPerDay) |->
        days[((k - 1) \div HoursPerDay) + 1].gasInStorage]

get_storage_capacity(rows) ==
    [storCap |-> storCap,
     soc_max_hour |-> Upsample(SortByDay(FilterYear(rows)))]

(***************************************************************************)
(* Profile construction (run_scenario, lines 96-207)                       *)
(***************************************************************************)

\* ts_vol = np.concatenate((ts_vol, h1)): the first half year again
ts_vol_ext(h) ==
    IF h < periods_per_year THEN ts_vol_num(h)
    ELSE ts_vol_num(h - periods_per_year)

\* ts_vol * total
Volatile(total, h) == (total * ts_vol_ext(h)) \div VolDen

\* ts_const * total, ts_const = 1 / periods_per_year
Constant(total, h) == total \div periods_per_year

\* red_func(demand, red) = demand * (1 - red), red in tenths
red_func(demand, red) == (demand * (10 - red)) \div 10

\* mutant: the replaced range starts at the cutover hour itself
IndexAfter_FromCutover(date) == {h \in Hours : h >= date}

\* positions of pd.date_range(start = date + 1 hour, end = last hour)
IndexAfter(date) == {h \in Hours : h >= date + 1}

\* series[index] = series_new[index]
Substitute(base, new, index) ==
    [h \in Hours |-> IF h \in index THEN new[h] ELSE base[h]]

\* a label of date_range(date + 1h, end) before start_date is no label of
\* time_index: indexing with it raises KeyError
LabelsExist(date) == date + 1 >= 0

domDem0(p) == [h \in Hours |-> Volatile(p.total_domestic_demand, h)]
ghdDem0(p) == [h \in Hours |-> Constant(p.total_ghd_demand, h)]
exp_n_oth0(p) == [h \in Hours |-> Constant(p.total_exports_and_other, h)]
elecDem0(p) ==
    [h \in Hours |->
        Volatile((p.total_electricity_demand * 3) \div 10, h)
        + Constant((p.total_electricity_demand * 7) \div 10, h)]
indDem0(p) ==
    [h \in Hours |->
        Volatile((p.total_industry_demand * 3) \div 10, h)
        + Constant((p.total_industry_demand * 7) \div 10, h)]

\* mutant: the reduced series replaces the whole series
Reduced_Everywhere(base, red, date) ==
    [h \in Hours |-> red_func(base[h], red)]

\* demand[time_index_demand_red] = red_func(demand, red)[time_index_demand_red]
Reduced(base, red, date) ==
    Substitute(base, [h \in Hours |-> red_func(base[h], red)], IndexAfter(date))

non_russian_pipeline_import_and_domestic_production(p) ==
    p.total_import + p.total_production - p.total_import_russia
    - lng_base_import

pipeImp0(p) ==
    [h \in Hours |->
        Constant(p.total_import_russia
                 + non_russian_pipeline_import_and_domestic_production(p), h)]

\* russ_share in tenths
pipeImp_red(p) ==
    [h \in Hours |->
        Constant(((p.russ_share * p.total_import_russia) \div 10)
                 + non_russian_pipeline_import_and_domestic_production(p), h)]

pipeImpSeries(p) ==
    Substitute(pipeImp0(p), pipeImp_red(p), IndexAfter(p.import_stop_date))

lngImpSeries(p) ==
    Substitute([h \in Hours |-> Constant(lng_base_import, h)],
               [h \in Hours |-> Constant(p.lng_add_import + lng_base_import, h)],
               IndexAfter(p.lng_increase_date))

BuildSeries(p) ==
    [domDem |-> Reduced(domDem0(p), p.red_dom_dem, p.demand_reduction_date),
     ghdDem |-> Reduced(ghdDem0(p), p.red_ghd_dem, p.demand_reduction_date),
     exp_n_oth |-> Reduced(exp_n_oth0(p), p.red_exp_dem, p.demand_reduction_date),
     elecDem |-> Reduced(elecDem0(p), p.red_elec_dem, p.demand_reduction_date),
     indDem |-> Reduced(indDem0(p), p.red_ind_dem, p.demand_reduction_date),
     pipeImp |-> pipeImpSeries(p),
     lngImp |-> lngImpSeries(p)]

(***************************************************************************)
(* The pyomo model (run_scenario, lines 214-484)                           *)
(***************************************************************************)

\* timeSteps = np.arange(len(domDem) + 1); pyM.TimeSet holds the same indices
timeSteps == 0 .. number_periods

\* timeSteps[-1]
timeSteps_last == number_periods

\* timeSteps[:-1]
timeSteps_head == 0 .. (number_periods - 1)

ServedVars ==
    {"expAndOtherServed", "domDemServed", "elecDemServed", "indDemServed",
     "ghdDemServed", "lngServed", "pipeServed"}

IndicatorVars ==
    {"expAndOtherIsUnserved", "domDemIsUnserved", "elecDemIsUnserved",
     "indDemIsUnserved", "ghdDemIsUnserved"}

\* the five demand streams: series, served variable, its bound constraint,
\* indicator variable, its constraint, twice the weight in the objective
Demands ==
    {[ser |-> "exp_n_oth", served |-> "expAndOtherServed",
      rule |-> "Constr_ExpAndOtherServed", ind |-> "expAndOtherIsUnserved",
      indrule |-> "Constr_ExpAndOtherIsUnserved", weight2 |-> 2],
     [ser |-> "domDem", served |-> "domDemServed",
      rule |-> "Constr_DomDemServed", ind |-> "domDemIsUnserved",
      indrule |-> "Constr_DomDemIsUnserved", weight2 |-> 5],
     [ser |-> "ghdDem", served |-> "ghdDemServed",
      rule |-> "Constr_GhdDemServed", ind |-> "ghdDemIsUnserved",
      indrule |-> "Constr_GhdDemIsUnserved", weight2 |-> 5],
     [ser |-> "elecDem", served |-> "elecDemServed",
      rule |-> "Constr_ElecDemServed", ind |-> "elecDemIsUnserved",
      indrule |-> "Constr_ElecDemIsUnserved", weight2 |-> 4],
     [ser |-> "indDem", served |-> "indDemServed",
      rule |-> "Constr_IndDemServed", ind |-> "indDemIsUnserved",
      indrule |-> "Constr_IndDemIsUnserved", weight2 |-> 3]}

\* the two supply streams
Supplies ==
    {[ser |-> "lngImp", served |-> "lngServed", rule |-> "Constr_lng_ub"],
     [ser |-> "pipeImp", served |-> "pipeServed", rule |-> "Constr_pipe_ub"]}

\* the seven streams with a served variable
Streams == {[ser |-> x.ser, served |-> x.served, rule |-> x.rule] :
               x \in Demands \cup Supplies}

NoIndex == -1

\* pyomo.Var(...): a variable has no value (None) before one is loaded or
\* fixed.  A variable's values are a function on the indices that have
\* one; a scalar variable has the one index NoIndex.
\* NegOffset (line 236) occurs in no constraint and with coefficient 0 in
\* the objective; it is left out.
NewVars ==
    [v \in ServedVars \cup IndicatorVars \cup {"Soc", "Soc_slack"} |->
        [t \in {} |-> 0]]

\* var[t].value = v
SetValue(s, var, t, v) == [s EXCEPT ![var] = (t :> v) @@ @]

\* var[t].value is not None
HasValue(s, var, t) == t \in DOMAIN s[var]

RECURSIVE SumOver(_, _)
\* sum(f[t] for t in S)
SumOver(f, S) ==
    IF S = {} THEN 0
    ELSE LET t == CHOOSE x \in S : TRUE
         IN  f[t] + SumOver(f, S \ {t})

\* mutant: the LNG bound of the last hour is skipped as well
Constr_lng_ub_applies_SkipLastHour(t) == t < timeSteps_last - 1

\* the generator conditions of the indexed rules: FALSE is Constraint.Skip
Constr_lng_ub_applies(t) == t < timeSteps_last
Constr_pipe_ub_applies(t) == t < timeSteps_last
\* mutant: the balance of the last hour is skipped as well
Constr_Soc_applies_SkipLastHour(t) == t < timeSteps_last - 1

Constr_Soc_applies(t) == t < timeSteps_last
Constr_Cap_applies(t) == t < timeSteps_last
Constr_Served_applies(t) == t < timeSteps_last
Constr_soc_start_applies(t, soc_max_hour) == t < Len(soc_max_hour)

\* pyM.lngServed[t] <= lngImp.iloc[t], pyM.pipeServed[t] <= pipeImp.iloc[t],
\* pyM.<x>Served[t] <= <x>.iloc[t]
Constr_ub_rule(s, ser, x, t) == s[x.served][t] <= ser[x.ser][t]

\* the state of charge balance
Constr_Soc_rule(s, t) ==
    s.Soc[t + 1] - s.Soc_slack[t + 1]
      = s.Soc[t]
        - s.domDemServed[t]
        - s.elecDemServed[t]
        - s.indDemServed[t]
        - s.ghdDemServed[t]
        + s.pipeServed[t]
        + s.lngServed[t]
        - s.expAndOtherServed[t]

Constr_Cap_rule(s, t) == s.Soc[t] <= storCap

\* mutant: the indicator is missing from the right-hand side
Constr_IsUnserved_rule_NoIndicator(s, ser, d) ==
    SumOver([t \in timeSteps_head |-> ser[d.ser][t] - s[d.served][t]],
            timeSteps_head)
      <= SumOver(ser[d.ser], timeSteps_head)

\* sum(dem[t] - served[t]) <= sum(dem[t]) * IsUnserved, over timeSteps[:-1]
Constr_IsUnserved_rule(s, ser, d) ==
    SumOver([t \in timeSteps_head |-> ser[d.ser][t] - s[d.served][t]],
            timeSteps_head)
      <= SumOver(ser[d.ser], timeSteps_head) * s[d.ind][NoIndex]

\* soc_max_hour is a Python list: element t is the (t+1)-th
Constr_soc_start_ub_rule(s, soc_max_hour, t) ==
    s.Soc[t] <= soc_max_hour[t + 1] + SocBuffer

Constr_soc_start_lb_rule(s, soc_max_hour, t) ==
    s.Soc[t] >= soc_max_hour[t + 1] - SocBuffer

\* pyomo.Constraint(pyM.TimeSet, rule = ...): one instance per index the rule
\* does not skip; pyomo.Constraint(rule = ...): one instance
Instances(soc_max_hour) ==
    {[rule |-> "Constr_lng_ub", t |-> t] :
        t \in {u \in timeSteps : Constr_lng_ub_applies(u)}}
    \cup {[rule |-> "Constr_pipe_ub", t |-> t] :
        t \in {u \in timeSteps : Constr_pipe_ub_applies(u)}}
    \cup {[rule |-> "Constr_Soc", t |-> t] :
        t \in {u \in timeSteps : Constr_Soc_applies(u)}}
    \cup {[rule |-> "Constr_Cap", t |-> t] :
        t \in {u \in timeSteps : Constr_Cap_applies(u)}}
    \cup {[rule |-> d.rule, t |-> t] :
        d \in Demands, t \in {u \in timeSteps : Constr_Served_applies(u)}}
    \cup {[rule |-> d.indrule, t |-> NoIndex] : d \in Demands}
    \cup {[rule |-> r, t |-> t] :
        r \in {"Constr_Soc_start_ub", "Constr_Soc_start_lb"},
        t \in {u \in timeSteps : Constr_soc_start_applies(u, soc_max_hour)}}

\* mutant: the slack of the terminal index is not fixed
FixedSlack_HeadOnly(use_soc_slack) ==
    IF use_soc_slack THEN {} ELSE timeSteps_head

\* if use_soc_slack is False: pyM.Soc_slack[i].fix(0) for i in timeSteps
FixedSlack(use_soc_slack) == IF use_soc_slack THEN {} ELSE timeSteps

\* whether the point s satisfies the constraint instance c
Holds(c, s, ser, soc_max_hour) ==
    CASE c.rule = "Constr_Soc" -> Constr_Soc_rule(s, c.t)
      [] c.rule = "Constr_Cap" -> Constr_Cap_rule(s, c.t)
      [] c.rule = "Constr_Soc_start_ub" ->
            Constr_soc_start_ub_rule(s, soc_max_hour, c.t)
      [] c.rule = "Constr_Soc_start_lb" ->
            Constr_soc_start_lb_rule(s, soc_max_hour, c.t)
      [] c.rule \in {x.rule : x \in Streams} ->
            Constr_ub_rule(s, ser, CHOOSE x \in Streams : x.rule = c.rule, c.t)
      [] c.rule \in {d.indrule : d \in Demands} ->
            Constr_IsUnserved_rule(s, ser,
                                   CHOOSE d \in Demands : d.indrule = c.rule)

(***************************************************************************)
(* optimizer.solve (line 493).  glpk is outside the repository; it is      *)
(* modelled by its contract: it moves through points that satisfy every    *)
(* constraint instance and every variable domain, or reports that there    *)
(* is none.  Points are taken on a grid and built block by block:          *)
(*   stage 0            Soc[0], Soc_slack[0]                               *)
(*   stage k in 1..H    the served quantities of hour k-1, Soc[k],         *)
(*                      Soc_slack[k]           (H = number_periods)        *)
(*   stage H+1          the five indicators                                *)
(*   stage H+2          every referenced variable has a value              *)
(* The served variables at the terminal index occur in no constraint and   *)
(* not in the objective; they are not part of the problem handed to the    *)
(* solver and keep no value.                                               *)
(***************************************************************************)
LastStage == number_periods + 2

\* the stage at which every variable of constraint instance c has a value
StageOf(c) ==
    CASE c.rule \in {"Constr_Cap", "Constr_Soc_start_ub", "Constr_Soc_start_lb"}
            -> c.t
      [] c.t = NoIndex -> number_periods + 1
      [] OTHER -> c.t + 1

StageHolds(k, s, cs, ser, soc_max_hour) ==
    \A c \in cs : StageOf(c) = k => Holds(c, s, ser, soc_max_hour)

\* grid values for a quantity with upper limit ub (the limit itself is
\* enforced by the constraint instances, the sign by the variable's domain)
Grid(ub) == {-1, 0, ub, ub + 1}

\* domain = pyomo.NonNegativeReals
NonNegativeReals(x) == x >= 0

\* domain = pyomo.Binary
Binary(x) == x \in {0, 1}

SlackGrid(i, fx) == IF i \in fx THEN {0} ELSE {0, SlackLevel}

\* grid values of served variable x at hour t that its domain and its own
\* bound constraint allow
Allowed(x, t, s, cs, ser, soc_max_hour) ==
    {v \in Grid(ser[x.ser][t]) :
        /\ NonNegativeReals(v)
        /\ \A c \in cs :
              (c.rule = x.rule /\ c.t = t) =>
                  Holds(c, SetValue(s, x.served, t, v), ser, soc_max_hour)}

\* grid values for Soc[0]
SocStartGrid(soc_max_hour) ==
    {-1, 0, storCap, storCap + 1}
    \cup (IF soc_max_hour = <<>> THEN {}
          ELSE {soc_max_hour[1] + d :
                   d \in {-SocBuffer - 1, -SocBuffer, SocBuffer, SocBuffer + 1}})

\* the points that extend s by the variables of stage k
Steps(k, s, cs, fx, ser, soc_max_hour) ==
    IF k = 0 THEN
        {s2 \in {SetValue(SetValue(s, "Soc", 0, x), "Soc_slack", 0, y) :
                    x \in SocStartGrid(soc_max_hour), y \in SlackGrid(0, fx)} :
            /\ NonNegativeReals(s2.Soc[0])
            /\ StageHolds(0, s2, cs, ser, soc_max_hour)}
    ELSE IF k <= number_periods THEN
        LET t == k - 1
            choice(x) == Allowed(x, t, s, cs, ser, soc_max_hour)
            of(var) == CHOOSE x \in Streams : x.served = var
            withFlows ==
                {[s EXCEPT !.expAndOtherServed = (t :> e) @@ @,
                           !.domDemServed = (t :> d) @@ @,
                           !.elecDemServed = (t :> el) @@ @,
                           !.indDemServed = (t :> i) @@ @,
                           !.ghdDemServed = (t :> g) @@ @,
                           !.lngServed = (t :> l) @@ @,
                           !.pipeServed = (t :> p) @@ @] :
                    e \in choice(of("expAndOtherServed")),
                    d \in choice(of("domDemServed")),
                    el \in choice(of("elecDemServed")),
                    i \in choice(of("indDemServed")),
                    g \in choice(of("ghdDemServed")),
                    l \in choice(of("lngServed")),
                    p \in choice(of("pipeServed"))}
            net(w) == w.pipeServed[t] + w.lngServed[t] - w.domDemServed[t]
                      - w.elecDemServed[t] - w.indDemServed[t]
                      - w.ghdDemServed[t] - w.expAndOtherServed[t]
        IN  UNION {
              {s2 \in {SetValue(SetValue(w, "Soc", k, w.Soc[t] + net(w) + x),
                                         "Soc_slack", k, y) :
                          x \in {0, SlackLevel}, y \in SlackGrid(k, fx)} :
                  /\ NonNegativeReals(s2.Soc[k])
                  /\ StageHolds(k, s2, cs, ser, soc_max_hour)} :
              w \in withFlows}
    ELSE
        {s2 \in {[v \in DOMAIN s |->
                        IF v \in IndicatorVars THEN (NoIndex :> b[v]) ELSE s[v]] :
                    b \in [IndicatorVars -> {-1, 0, 1, 2}]} :
            /\ \A v \in IndicatorVars : Binary(s2[v][NoIndex])
            /\ StageHolds(k, s2, cs, ser, soc_max_hour)}

RECURSIVE Completions(_, _, _, _, _, _)
\* the grid points with a value for every variable that extend s
Completions(k, s, cs, fx, ser, soc_max_hour) ==
    IF k = LastStage THEN {s}
    ELSE UNION {Completions(k + 1, s2, cs, fx, ser, soc_max_hour) :
                   s2 \in Steps(k, s, cs, fx, ser, soc_max_hour)}

\* fac = (1 / 1.06) ** (1 / 8760), and fac ** t = exp(-t * ln(1.06) / 8760).
\* With ln(1.06) = 1 / 17.16 and the scaled year, the model takes fac ** t to
\* first order in t: fac ** t = fac_pow(t) / FacDen, which like fac ** t is
\* positive and strictly decreasing over the horizon.
FacDen == 17 * periods_per_year + 1

fac_pow(t) == FacDen - t

\* mutant: the domestic indicator enters the objective with the weight of
\* its stream
Objective_rule_IndicatorWeighted(s, ser) ==
    - FacDen * SumOver(s.Soc, timeSteps)
    + number_periods * storCap *
        (SumOver([t \in timeSteps_head |-> 2 * fac_pow(t) * s.Soc_slack[t]],
                 timeSteps_head)
         + 5 * FacDen * s.domDemIsUnserved[NoIndex]
         + SumOver([t \in timeSteps_head |->
                      fac_pow(t) *
                        (2 * (ser.exp_n_oth[t] - s.expAndOtherServed[t])
                         + 5 * (ser.domDem[t] - s.domDemServed[t])
                         + 5 * (ser.ghdDem[t] - s.ghdDemServed[t])
                         + 4 * (ser.elecDem[t] - s.elecDemServed[t])
                         + 3 * (ser.indDem[t] - s.indDemServed[t]))],
                   timeSteps_head))

\* mutant: exports and other demand weighs 3.0, above every other stream
Objective_rule_ExportsFirst(s, ser) ==
    - FacDen * SumOver(s.Soc, timeSteps)
    + number_periods * storCap *
        (SumOver([t \in timeSteps_head |-> 2 * fac_pow(t) * s.Soc_slack[t]],
                 timeSteps_head)
         + SumOver([t \in timeSteps_head |->
                      fac_pow(t) *
                        (6 * (ser.exp_n_oth[t] - s.expAndOtherServed[t])
                         + 5 * (ser.domDem[t] - s.domDemServed[t])
                         + 5 * (ser.ghdDem[t] - s.ghdDemServed[t])
                         + 4 * (ser.elecDem[t] - s.elecDemServed[t])
                         + 3 * (ser.indDem[t] - s.indDemServed[t]))],
                   timeSteps_head))

\* Objective_rule, times 2 * len(domDem) * storCap * FacDen:
\*   -0.5 / len(domDem) * sum(Soc[t] for t in TimeSet) / storCap
\*   + 0 * NegOffset
\*   + 1 * sum(fac ** t * Soc_slack[t] for t in timeSteps[:-1])
\*   + w * (0 * IsUnserved + sum(fac ** t * (dem[t] - served[t])
\*                               for t in timeSteps[:-1]))   per stream,
\* w = 1.0, 2.5, 2.5, 2, 1.5
Objective_rule(s, ser) ==
    - FacDen * SumOver(s.Soc, timeSteps)
    + number_periods * storCap *
        (SumOver([t \in timeSteps_head |-> 2 * fac_pow(t) * s.Soc_slack[t]],
                 timeSteps_head)
         + 2 * FacDen * 0 * s.expAndOtherIsUnserved[NoIndex]
         + 5 * FacDen * 0 * s.domDemIsUnserved[NoIndex]
         + 5 * FacDen * 0 * s.ghdDemIsUnserved[NoIndex]
         + 4 * FacDen * 0 * s.elecDemIsUnserved[NoIndex]
         + 3 * FacDen * 0 * s.indDemIsUnserved[NoIndex]
         + SumOver([t \in timeSteps_head |->
                      fac_pow(t) *
                        (2 * (ser.exp_n_oth[t] - s.expAndOtherServed[t])
                         + 5 * (ser.domDem[t] - s.domDemServed[t])
                         + 5 * (ser.ghdDem[t] - s.ghdDemServed[t])
                         + 4 * (ser.elecDem[t] - s.elecDemServed[t])
                         + 3 * (ser.indDem[t] - s.indDemServed[t]))],
                   timeSteps_head))

\* whether s satisfies every constraint instance and every domain
Feasible(s, cs, ser, soc_max_hour) ==
    /\ \A c \in cs : Holds(c, s, ser, soc_max_hour)
    /\ \A v \in ServedVars \cup {"Soc", "Soc_slack"} :
          \A t \in DOMAIN s[v] : NonNegativeReals(s[v][t])
    /\ \A v \in IndicatorVars : Binary(s[v][NoIndex])

\* a step no bound of the model reaches
FarStep == 2 * storCap + SocBuffer

\* s moved along the direction that raises the slack at index t and with it
\* the state of charge from t on
Ray(s, t) ==
    [s EXCEPT !.Soc_slack[t] = @ + FarStep,
              !.Soc = [u \in DOMAIN s.Soc |->
                          IF u >= t THEN s.Soc[u] + FarStep ELSE s.Soc[u]]]

\* whether the objective can be lowered without end from a point of pts:
\* some free slack can be raised, the point stays feasible and the
\* objective falls
Unbounded(pts, cs, fx, ser, soc_max_hour) ==
    \E s \in pts, t \in timeSteps \ fx :
        /\ Feasible(Ray(s, t), cs, ser, soc_max_hour)
        /\ Objective_rule(Ray(s, t), ser) < Objective_rule(s, ser)

\* the least objective value over pts
LeastObjective(pts, ser) ==
    LET vals == {Objective_rule(s, ser) : s \in pts}
    IN  CHOOSE v \in vals : \A w \in vals : v <= w

\* what the solver establishes: no feasible point, no least value, or the
\* least value
Establish(pts, cs, fx, ser, soc_max_hour) ==
    IF pts = {} THEN [kind |-> "infeasible", value |-> 0]
    ELSE IF Unbounded(pts, cs, fx, ser, soc_max_hour)
         THEN [kind |-> "unbounded", value |-> 0]
         ELSE [kind |-> "optimal", value |-> LeastObjective(pts, ser)]

(***************************************************************************)
(* Result assembly (lines 501-535)                                         *)
(***************************************************************************)

\* pyM.<var>[t].value, then df.fillna(0): None becomes 0
fillna(s, var, t) == IF HasValue(s, var, t) THEN s[var][t] ELSE 0

Row(s, ser, t) ==
    [time |-> t,
     pipeImp |-> ser.pipeImp[t], pipeImp_served |-> fillna(s, "pipeServed", t),
     lngImp |-> ser.lngImp[t], lngImp_served |-> fillna(s, "lngServed", t),
     domDem |-> ser.domDem[t], domDem_served |-> fillna(s, "domDemServed", t),
     elecDem |-> ser.elecDem[t], elecDem_served |-> fillna(s, "elecDemServed", t),
     indDem |-> ser.indDem[t], indDem_served |-> fillna(s, "indDemServed", t),
     ghdDem |-> ser.ghdDem[t], ghdDem_served |-> fillna(s, "ghdDemServed", t),
     exp_n_oth |-> ser.exp_n_oth[t],
     exp_n_oth_served |-> fillna(s, "expAndOtherServed", t),
     soc |-> fillna(s, "Soc", t), soc_slack |-> fillna(s, "Soc_slack", t)]

Table(s, ser) == [t \in timeSteps_head |-> Row(s, ser, t)]

(***************************************************************************)
(* Inputs                                                                  *)
(***************************************************************************)

\* a scenario in which nothing is demanded, the pipelines deliver nothing
\* (total_import equals the LNG baseline) and no cutover falls in the horizon
BaseParams ==
    [total_import |-> lng_base_import,
     total_production |-> 0,
     total_import_russia |-> 0,
     total_domestic_demand |-> 0,
     total_ghd_demand |-> 0,
     total_electricity_demand |-> 0,
     total_industry_demand |-> 0,
     total_exports_and_other |-> 0,
     red_dom_dem |-> 0,
     red_elec_dem |-> 0,
     red_ghd_dem |-> 0,
     red_ind_dem |-> 0,
     red_exp_dem |-> 0,
     import_stop_date |-> number_periods,
     demand_reduction_date |-> number_periods,
     lng_increase_date |-> number_periods,
     lng_add_import |-> 0,
     russ_share |-> 0,
     use_soc_slack |-> FALSE]

TotalFields ==
    {"total_domestic_demand", "total_ghd_demand", "total_electricity_demand",
     "total_industry_demand", "total_exports_and_other"}

\* the base scenario and its one-at-a-time variations
Scenarios ==
    {BaseParams}
    \cup {[BaseParams EXCEPT ![f] = SmallUnit] : f \in TotalFields}
    \cup {[BaseParams EXCEPT !.total_import = @ + 2 * periods_per_year],
          [BaseParams EXCEPT !.use_soc_slack = TRUE]}

StorageRow(year, day, gas) ==
    [year |-> year, day |-> day, gasInStorage |-> gas]

\* storage_data_5a.xlsx: one row per gas day, in any order
StorageFiles ==
    {<<>>,
     <<StorageRow(TargetYear - 1, 1, 600)>>,
     <<StorageRow(TargetYear, 1, 600)>>,
     <<StorageRow(TargetYear, 1, storCap - 5)>>,
     <<StorageRow(TargetYear, 1, storCap + 100)>>,
     <<StorageRow(TargetYear, 2, 5), StorageRow(TargetYear, 1, 0)>>,
     <<StorageRow(TargetYear - 1, 2, 5), StorageRow(TargetYear, 1, 600)>>}

DefaultFile == <<StorageRow(TargetYear, 1, 600)>>

\* an empty store at the start and a first-hour domestic demand of 500, above
\* the 438 of LNG and the 10 of the start band; over the horizon supply
\* exceeds demand
TightStartParams ==
    [BaseParams EXCEPT !.total_domestic_demand = 250 * VolDen]

TightStartFile == <<StorageRow(TargetYear, 1, 0)>>

\* two demand streams of different weight and the same hourly demand, more
\* than supply and store cover together: the commercial stream against
\* exports (each hour as much as the LNG of that hour), and electricity
\* against industry
ContestedParams ==
    {[BaseParams EXCEPT !.total_ghd_demand = lng_base_import,
                        !.total_exports_and_other = lng_base_import],
     [BaseParams EXCEPT !.total_electricity_demand = 840,
                        !.total_industry_demand = 840]}

InitRest ==
    /\ pc = "start"
    /\ storage = NoValue
    /\ series = NoValue
    /\ constrs = {}
    /\ fixed = {}
    /\ sol = NewVars
    /\ stage = 0
    /\ bound = NoValue
    /\ solver_info = NoValue
    /\ df = NoValue

Init ==
    /\ \/ params \in Scenarios /\ xlsx = DefaultFile
       \/ params = BaseParams /\ xlsx \in StorageFiles
       \/ params = TightStartParams /\ xlsx = TightStartFile
       \/ params \in ContestedParams /\ xlsx = DefaultFile
    /\ InitRest

(***************************************************************************)
(* run_scenario, step by step                                              *)
(***************************************************************************)

\* line 89
LoadStorage ==
    /\ pc = "start"
    /\ storage' = get_storage_capacity(xlsx)
    /\ pc' = "loaded"
    /\ UNCHANGED <<params, xlsx, series, constrs, fixed, sol, stage,
                   bound, solver_info, df>>

\* lines 91-207
BuildProfiles ==
    /\ pc = "loaded"
    /\ IF /\ LabelsExist(params.demand_reduction_date)
          /\ LabelsExist(params.import_stop_date)
          /\ LabelsExist(params.lng_increase_date)
       THEN series' = BuildSeries(params) /\ pc' = "built"
       ELSE series' = series /\ pc' = "failed"
    /\ UNCHANGED <<params, xlsx, storage, constrs, fixed, sol, stage,
                   bound, solver_info, df>>

\* lines 214-484
Formulate ==
    /\ pc = "built"
    /\ constrs' = Instances(storage.soc_max_hour)
    /\ fixed' = FixedSlack(params.use_soc_slack)
    /\ sol' = [NewVars EXCEPT
                 !.Soc_slack = [t \in FixedSlack(params.use_soc_slack) |-> 0]]
    /\ stage' = 0
    /\ pc' = "formulated"
    /\ UNCHANGED <<params, xlsx, storage, series, bound, solver_info, df>>

\* line 493, optimizer.solve is entered: what the run can end with
SolverStart ==
    /\ pc = "formulated"
    /\ bound' = Establish(Completions(0, sol, constrs, fixed, series,
                                      storage.soc_max_hour),
                          constrs, fixed, series, storage.soc_max_hour)
    /\ pc' = "solving"
    /\ UNCHANGED <<params, xlsx, storage, series, constrs, fixed, sol, stage,
                   solver_info, df>>

\* line 493: the solver moves to a further block of variables
SolverStep ==
    /\ pc = "solving"
    /\ stage < LastStage
    /\ sol' \in Steps(stage, sol, constrs, fixed, series, storage.soc_max_hour)
    /\ stage' = stage + 1
    /\ UNCHANGED <<pc, params, xlsx, storage, series, constrs, fixed, bound,
                   solver_info, df>>

\* line 493: the solver holds a point of least objective value and returns;
\* optimizer.solve loads its values into pyM
SolverReturn ==
    /\ pc = "solving"
    /\ stage = LastStage
    /\ bound.kind = "optimal"
    /\ Objective_rule(sol, series) = bound.value
    /\ solver_info' = "optimal"
    /\ pc' = "solved"
    /\ UNCHANGED <<params, xlsx, storage, series, constrs, fixed, sol, stage,
                   bound, df>>

\* line 493: the solver finds no point, or no least value, and returns;
\* optimizer.solve loads no values into pyM and does not raise
SolverGivesUp ==
    /\ pc = "solving"
    /\ bound.kind \in {"infeasible", "unbounded"}
    /\ bound.kind = "unbounded" => stage = LastStage
    /\ sol' = [NewVars EXCEPT !.Soc_slack = [t \in fixed |-> 0]]
    /\ solver_info' = bound.kind
    /\ pc' = "solved"
    /\ UNCHANGED <<params, xlsx, storage, series, constrs, fixed, stage,
                   bound, df>>

\* lines 495-610: solver_info is printed, not tested
Assemble ==
    /\ pc = "solved"
    /\ df' = Table(sol, series)
    /\ pc' = "done"
    /\ UNCHANGED <<params, xlsx, storage, series, constrs, fixed, sol, stage,
                   bound, solver_info>>

Next ==
    \/ LoadStorage
    \/ BuildProfiles
    \/ Formulate
    \/ SolverStart
    \/ SolverStep
    \/ SolverReturn
    \/ SolverGivesUp
    \/ Assemble

Spec == Init /\ [][Next]_vars

(***************************************************************************)
(* run_scenario up to line 207: the seven series, for scenarios in which   *)
(* every stream is demanded and the cutover dates fall before, in and      *)
(* after the horizon                                                       *)
(***************************************************************************)
ProfileScenarios ==
    {[BaseParams EXCEPT
        !.total_import = lng_base_import + Unit,
        !.total_import_russia = ru,
        !.total_domestic_demand = Unit,
        !.total_ghd_demand = Unit,
        !.total_electricity_demand = Unit,
        !.total_industry_demand = Unit,
        !.total_exports_and_other = Unit,
        !.red_dom_dem = r[1], !.red_elec_dem = r[2], !.red_ghd_dem = r[1],
        !.red_ind_dem = r[2], !.red_exp_dem = r[3],
        !.demand_reduction_date = dr,
        !.import_stop_date = st,
        !.russ_share = sh] :
        ru \in {0, Unit},
        r \in {<<0, 0, 0>>, <<1, 2, 0>>, <<10, 5, 3>>},
        dr \in -2 .. number_periods,
        st \in {-2, 0, 1, number_periods},
        sh \in {0, 5, 10}}

InitProfile ==
    /\ params \in ProfileScenarios
    /\ xlsx = DefaultFile
    /\ InitRest

NextProfile ==
    \/ LoadStorage
    \/ BuildProfiles

SpecProfile == InitProfile /\ [][NextProfile]_vars

(***************************************************************************)
(* Properties                                                              *)
(***************************************************************************)

\* the pyomo model exists
Formulated == pc \in {"formulated", "solving", "solved", "done"}

\* the solver holds a point with a value for every variable of the problem:
\* a feasible solution
FeasiblePoint ==
    stage = LastStage /\ solver_info \notin {"infeasible", "unbounded"}

\* pipeServed[t] + lngServed[t] - (the five served demands at t)
NetInflow(s, t) ==
    s.pipeServed[t] + s.lngServed[t] - s.domDemServed[t] - s.elecDemServed[t]
    - s.indDemServed[t] - s.ghdDemServed[t] - s.expAndOtherServed[t]

\* sum over the non-terminal hours of demand[t] - served[t]
Shortfall(s, d) ==
    SumOver([t \in timeSteps_head |-> series[d.ser][t] - s[d.served][t]],
            timeSteps_head)

\* C1: in every feasible solution, at every non-terminal hour each of the
\* seven served quantities lies between 0 and the value of its supply or
\* demand series at that hour.
C1_ServedWithinSeries ==
    FeasiblePoint =>
        \A x \in Streams, t \in timeSteps_head :
            /\ HasValue(sol, x.served, t)
            /\ 0 <= sol[x.served][t]
            /\ sol[x.served][t] <= series[x.ser][t]

\* a feasible solution that serves a demand fully in one hour and not at
\* all in another, and delivers LNG at its limit
C1_Witness ==
    /\ FeasiblePoint
    /\ \E d \in Demands, t, u \in timeSteps_head :
          /\ series[d.ser][t] > 0 /\ sol[d.served][t] = series[d.ser][t]
          /\ series[d.ser][u] > 0 /\ sol[d.served][u] = 0
    /\ \E t \in timeSteps_head : sol.lngServed[t] = series.lngImp[t]

\* C2: with use_soc_slack disabled every Soc_slack[t] of the time set is
\* fixed to 0, and in every feasible solution the state of charge of the next
\* index is the state of charge plus what is delivered minus what is served.
C2_SlackFixedAndMassConserved ==
    (Formulated /\ ~params.use_soc_slack) =>
        /\ \A t \in timeSteps :
              /\ t \in fixed
              /\ HasValue(sol, "Soc_slack", t)
              /\ sol.Soc_slack[t] = 0
        /\ FeasiblePoint =>
              \A t \in timeSteps_head :
                  sol.Soc[t + 1] = sol.Soc[t] + NetInflow(sol, t)

\* a feasible solution without slack in which gas enters and leaves storage
C2_Witness ==
    /\ FeasiblePoint
    /\ ~params.use_soc_slack
    /\ \E t, u \in timeSteps_head :
          /\ sol.Soc[t + 1] > sol.Soc[t]
          /\ sol.Soc[u + 1] < sol.Soc[u]

\* C3 (as claimed): in every feasible solution Soc[t] <= storCap at every
\* index of the time set, the terminal index included.
C3_SocWithinCapacityEverywhere ==
    FeasiblePoint => \A t \in timeSteps : sol.Soc[t] <= storCap

\* C4 (as claimed): no balance constraint is generated for the last
\* non-terminal hour.
C4_NoBalanceForLastHour ==
    Formulated => [rule |-> "Constr_Soc", t |-> number_periods - 1] \notin constrs

\* C4 (amended): a balance constraint is generated for every non-terminal
\* hour, the last one included, and for no other index; in every feasible
\* solution Soc at the terminal index is Soc of the last hour plus that
\* hour's net inflow plus the terminal slack.
C4_BalanceForEveryHour ==
    Formulated =>
        /\ {c.t : c \in {b \in constrs : b.rule = "Constr_Soc"}} = timeSteps_head
        /\ FeasiblePoint =>
              sol.Soc[timeSteps_last] - sol.Soc_slack[timeSteps_last]
                = sol.Soc[timeSteps_last - 1]
                  + NetInflow(sol, timeSteps_last - 1)

\* a feasible solution whose last hour changes the state of charge
C4_Witness ==
    /\ FeasiblePoint
    /\ NetInflow(sol, timeSteps_last - 1) # 0
    /\ sol.Soc[timeSteps_last] # sol.Soc[timeSteps_last - 1]

\* a demand series holds a value at every hour
SeriesBuilt == pc \in {"built", "formulated", "solving", "solved", "done"}

\* the unreduced series of a demand stream: shape(h) x annual total
Baseline(ser) ==
    CASE ser = "domDem" -> domDem0(params)
      [] ser = "ghdDem" -> ghdDem0(params)
      [] ser = "elecDem" -> elecDem0(params)
      [] ser = "indDem" -> indDem0(params)
      [] ser = "exp_n_oth" -> exp_n_oth0(params)

\* the reduction fraction of a demand stream, in tenths
Reduction(ser) ==
    CASE ser = "domDem" -> params.red_dom_dem
      [] ser = "ghdDem" -> params.red_ghd_dem
      [] ser = "elecDem" -> params.red_elec_dem
      [] ser = "indDem" -> params.red_ind_dem
      [] ser = "exp_n_oth" -> params.red_exp_dem

\* C5: for each of the five demand streams, an hour strictly before
\* demand_reduction_date holds the unreduced baseline, an hour strictly
\* after it holds baseline x (1 - reduction fraction).
C5_RegimeSwitch ==
    SeriesBuilt =>
        \A d \in Demands, h \in Hours :
            /\ h < params.demand_reduction_date =>
                  series[d.ser][h] = Baseline(d.ser)[h]
            /\ h > params.demand_reduction_date =>
                  10 * series[d.ser][h]
                    = (10 - Reduction(d.ser)) * Baseline(d.ser)[h]

\* a cutover inside the horizon with every stream demanded and reduced
C5_Witness ==
    /\ SeriesBuilt
    /\ params.demand_reduction_date \in 1 .. (number_periods - 2)
    /\ \A d \in Demands :
          /\ Reduction(d.ser) > 0
          /\ \A h \in Hours : Baseline(d.ser)[h] > 0
          /\ \E h \in Hours : series[d.ser][h] < Baseline(d.ser)[h]
          /\ \E h \in Hours : series[d.ser][h] = Baseline(d.ser)[h]

\* (total_import_russia + non-Russian pipeline import and production),
\* per year
PreCutoverTotal ==
    params.total_import_russia
    + non_russian_pipeline_import_and_domestic_production(params)

\* 10 x (russ_share x total_import_russia + non-Russian pipeline import and
\* production), per year, russ_share in tenths
PostCutoverTotal10 ==
    params.russ_share * params.total_import_russia
    + 10 * non_russian_pipeline_import_and_domestic_production(params)

\* C6 (as claimed): with import_stop_date at the scenario start every hour
\* of pipeImp, the first included, holds the post-cutover value.
C6_EveryHourPostCutover ==
    (SeriesBuilt /\ params.import_stop_date = 0) =>
        \A h \in Hours :
            10 * periods_per_year * series.pipeImp[h] = PostCutoverTotal10

\* C6 (amended): with import_stop_date at the scenario start every hour
\* after the first holds the post-cutover value, and the first hour holds
\* the pre-cutover value.
C6_FirstHourPreCutover ==
    (SeriesBuilt /\ params.import_stop_date = 0) =>
        /\ \A h \in Hours \ {0} :
              10 * periods_per_year * series.pipeImp[h] = PostCutoverTotal10
        /\ periods_per_year * series.pipeImp[0] = PreCutoverTotal

\* the import stops at the scenario start and the two values differ
C6_Witness ==
    /\ SeriesBuilt
    /\ params.import_stop_date = 0
    /\ 10 * PreCutoverTotal # PostCutoverTotal10
    /\ series.pipeImp[0] > series.pipeImp[1]

\* C7 (as claimed): when the storage table has no row of the target year,
\* run_scenario fails before it builds a model.
C7_FailsWithoutTargetYear ==
    (\A i \in 1 .. Len(xlsx) : xlsx[i].year # TargetYear) =>
        pc \in {"start", "failed"}

\* C8 (as claimed): when the solver reports the model infeasible,
\* run_scenario returns no result table.
C8_NoTableWhenInfeasible ==
    solver_info = "infeasible" => pc # "done"

\* C9: in every feasible solution a demand stream with a strictly positive
\* total shortfall has its indicator at 1; and whatever the served
\* quantities, the indicator constraint is satisfied with the indicator at 1.
C9_IndicatorSetOnShortfall ==
    /\ (pc = "solving" /\ stage >= number_periods + 1) =>
          \A d \in Demands :
              Constr_IsUnserved_rule(SetValue(sol, d.ind, NoIndex, 1), series, d)
    /\ FeasiblePoint =>
          \A d \in Demands :
              Shortfall(sol, d) > 0 => sol[d.ind][NoIndex] = 1

\* C9 witness: a feasible solution with a shortfall in one stream
\* (indicator 1) and an indicator at 0 in another
C9_Witness ==
    /\ FeasiblePoint
    /\ \E d, e \in Demands :
          /\ Shortfall(sol, d) > 0
          /\ sol[d.ind][NoIndex] = 1
          /\ sol[e.ind][NoIndex] = 0

\* all reduction fractions zero, the import stop beyond the horizon, and
\* over the horizon total supply above total demand
ScenarioA ==
    /\ params.red_dom_dem = 0 /\ params.red_elec_dem = 0
    /\ params.red_ghd_dem = 0 /\ params.red_ind_dem = 0
    /\ params.red_exp_dem = 0
    /\ params.import_stop_date >= number_periods
    /\ SumOver([t \in timeSteps_head |->
                  series.pipeImp[t] + series.lngImp[t]], timeSteps_head)
         > SumOver([t \in timeSteps_head |->
                      series.domDem[t] + series.ghdDem[t] + series.elecDem[t]
                      + series.indDem[t] + series.exp_n_oth[t]],
                   timeSteps_head)

\* the solver has returned an optimal solution, loaded into pyM
OptimalSolution == pc = "solved" /\ solver_info = "optimal"

DomesticStream == CHOOSE d \in Demands : d.ser = "domDem"

\* sol with domDemIsUnserved at the other binary value
FlippedIndicator ==
    SetValue(sol, "domDemIsUnserved", NoIndex,
             1 - sol.domDemIsUnserved[NoIndex])

\* C10 (as claimed): in Scenario A every optimal solution has
\* domDemIsUnserved = 0.
C10_IndicatorZeroAtOptimum ==
    (OptimalSolution /\ ScenarioA) => sol.domDemIsUnserved[NoIndex] = 0

\* C10 (amended): in Scenario A an optimal solution has domDemIsUnserved = 0
\* only if its domestic shortfall is zero, and when the domestic shortfall
\* is zero the solution with domDemIsUnserved at the other value, 0 or 1,
\* is feasible and optimal as well: the indicator is not forced to 0.
C10_IndicatorFreeAtOptimum ==
    (OptimalSolution /\ ScenarioA) =>
        /\ sol.domDemIsUnserved[NoIndex] = 0 =>
              Shortfall(sol, DomesticStream) = 0
        /\ Shortfall(sol, DomesticStream) = 0 =>
              /\ Feasible(FlippedIndicator, constrs, series,
                          storage.soc_max_hour)
              /\ Objective_rule(FlippedIndicator, series) = bound.value

\* C10 witness: an optimal solution of Scenario A that serves a non-zero
\* domestic demand in full and has domDemIsUnserved = 1
C10_Witness ==
    /\ OptimalSolution
    /\ ScenarioA
    /\ params.total_domestic_demand > 0
    /\ Shortfall(sol, DomesticStream) = 0
    /\ sol.domDemIsUnserved[NoIndex] = 1

\* the indices i whose Soc_slack[i] appears in a generated balance
\* constraint: Constr_Soc at t holds Soc_slack[t + 1]
RecurrenceSlack == {c.t + 1 : c \in {x \in constrs : x.rule = "Constr_Soc"}}

\* the objective coefficient of Soc_slack[i], times the scale of
\* Objective_rule: the objective is linear, so it is the change of the
\* objective when Soc_slack[i] alone grows by one
SlackCoefficient(i) ==
    Objective_rule(SetValue(sol, "Soc_slack", i, sol.Soc_slack[i] + 1), series)
    - Objective_rule(sol, series)

\* C11 (as claimed): with use_soc_slack enabled, every Soc_slack variable of
\* the state-of-charge recurrence has a strictly positive coefficient in the
\* objective, and the minimisation is bounded below.
C11_SlackPenalisedAndBounded ==
    (params.use_soc_slack /\ pc = "solving" /\ stage = LastStage) =>
        /\ \A i \in RecurrenceSlack : SlackCoefficient(i) > 0
        /\ bound.kind # "unbounded"

\* C12: in every optimal solution, at every non-terminal hour, if a demand
\* stream is served a positive quantity then every demand stream of strictly
\* higher objective weight is served its whole demand of that hour.
C12_ServedInWeightOrder ==
    OptimalSolution =>
        \A t \in timeSteps_head :
            \A lo \in Demands, hi \in Demands :
                (lo.weight2 < hi.weight2 /\ sol[lo.served][t] > 0) =>
                    sol[hi.served][t] = series[hi.ser][t]

\* C12 witness: an optimal solution in which two streams of different weight
\* both have demand at two hours; at one hour both are served, at the other
\* the one of higher weight is served in full and the one of lower weight
\* not at all
C12_Witness ==
    /\ OptimalSolution
    /\ \E lo \in Demands, hi \in Demands :
          /\ lo.weight2 < hi.weight2
          /\ \E t \in timeSteps_head, u \in timeSteps_head :
                /\ series[lo.ser][t] > 0 /\ series[lo.ser][u] > 0
                /\ sol[lo.served][t] > 0
                /\ sol[hi.served][t] = series[hi.ser][t]
                /\ sol[hi.served][u] = series[hi.ser][u]
                /\ sol[hi.served][u] > 0
                /\ sol[lo.served][u] = 0

====
